---- MODULE Spec2Model ----
(***************************************************************************)
(* Model of the Gisquick QGIS plugin's websocket bridge:                   *)
(*   src/python/gisquick_ws.py   GisquickWs (load / start / stop / send),  *)
(*                               callback_wrapper (the RPC dispatcher),    *)
(*                               GisquickJSONEncoder, WsError, go_string   *)
(*   src/python/webgisplugin.py  WebGisPlugin.toggle_tool.callback (the    *)
(*                               handler the plugin registers)             *)
(***************************************************************************)
EXTENDS Naturals, Integers, Sequences, FiniteSets, TLC

\* ------------------------------------------------------------------ bounds
\* Longest chain of exceptions (raised, its __cause__, ...) a handler raises.
MaxChain == 3
\* Number of start() calls followed.
MaxStarts == 2
\* Number of WebsocketServer threads the plugin creates.
MaxWorkers == 2
\* Number of stop() calls, and of send() calls, followed.
MaxOps == 1
\* Number of times the native client calls the success function pointer in
\* one run.
MaxConnects == 2

\* --------------------------------------------------------- program constants
StatusOk == 200
StatusError == 500
StatusNotOpened == 404

\* ------------------------------------------------------------ Python values
\* A Python value is [ty, n, s, leaf]: ty its type, n the number (int, bool)
\* or the number of items (list, dict), s the text (str) or the key of a
\* one-entry dict, leaf the kind of item a non-empty container holds.
PyVal(ty, n, s, leaf) == [ty |-> ty, n |-> n, s |-> s, leaf |-> leaf]
PyNone == PyVal("NoneType", 0, "", "plain")
PyInt(i) == PyVal("int", i, "", "plain")
PyBool(b) == PyVal("bool", IF b THEN 1 ELSE 0, "", "plain")
PyStr(s) == PyVal("str", 0, s, "plain")
PyList(n, leaf) == PyVal("list", n, "", IF n = 0 THEN "plain" ELSE leaf)
PyEmptyDict == PyVal("dict", 0, "", "plain")
PyDict1(key, leaf) == PyVal("dict", 1, key, leaf)
\* An object json cannot serialise (a set, a QgsMapLayer, ...).
PyObject == PyVal("object", 0, "", "plain")

\* Python truth value testing, as `or` applies it.
Truthy(v) ==
    CASE v.ty = "NoneType" -> FALSE
      [] v.ty \in {"int", "bool"} -> v.n # 0
      [] v.ty = "str" -> v.s # ""
      [] v.ty \in {"list", "dict"} -> v.n > 0
      [] OTHER -> TRUE

\* a or b
PyOr(a, b) == IF Truthy(a) THEN a ELSE b

\* d.get(key, default) on a dict of at most one entry; the entry's value is
\* rebuilt from its leaf kind.
LeafValue(leaf) ==
    CASE leaf = "true" -> PyBool(TRUE)
      [] leaf = "false" -> PyBool(FALSE)
      [] leaf = "None" -> PyNone
      [] leaf = "dict" -> PyDict1("layer1", "plain")
      [] leaf = "object" -> PyObject
      [] OTHER -> PyInt(1)

DictGet(d, key, default) ==
    IF d.ty = "dict" /\ d.n > 0 /\ d.s = key THEN LeafValue(d.leaf) ELSE default

\* -------------------------------------------------------------- JSON values
\* A JSON value is [j, n, s, leaf], j one of null, true, false, number,
\* string, array, object.
JVal(j, n, s, leaf) == [j |-> j, n |-> n, s |-> s, leaf |-> leaf]
JNull == JVal("null", 0, "", "plain")
JNum(i) == JVal("number", i, "", "plain")
JStr(s) == JVal("string", 0, s, "plain")
JEmptyObject == JVal("object", 0, "", "plain")
JObject1(key, leaf) == JVal("object", 1, key, leaf)

\* json.loads on one JSON value.
FromJson(x) ==
    CASE x.j = "null" -> PyNone
      [] x.j = "true" -> PyBool(TRUE)
      [] x.j = "false" -> PyBool(FALSE)
      [] x.j = "number" -> PyInt(x.n)
      [] x.j = "string" -> PyStr(x.s)
      [] x.j = "array" -> PyVal("list", x.n, "", IF x.leaf = "null" THEN "None" ELSE x.leaf)
      [] OTHER -> PyVal("dict", x.n, x.s, IF x.leaf = "null" THEN "None" ELSE x.leaf)

\* Items json cannot serialise itself and hands to the encoder's default().
NeedsDefault(leaf) == leaf \in {"NULL", "object"}

\* GisquickJSONEncoder.default: the QGIS NULL becomes None, anything else
\* goes to json.JSONEncoder.default, which raises TypeError.
EncoderDefaultMutant(leaf) == "TypeError"
EncoderDefault(leaf) == IF leaf = "NULL" THEN "None" ELSE "TypeError"

\* What json writes for the items of a container.
EncodedLeaf(leaf) == IF NeedsDefault(leaf) THEN EncoderDefault(leaf) ELSE leaf

\* Whether json.dumps(v, cls=GisquickJSONEncoder) succeeds.
Encodable(v) ==
    /\ v.ty # "object"
    /\ (v.ty \in {"list", "dict"} /\ v.n > 0) => EncodedLeaf(v.leaf) # "TypeError"

\* The JSON value json.dumps(v, cls=GisquickJSONEncoder) writes for an
\* encodable v.
ToJson(v) ==
    LET leaf == IF EncodedLeaf(v.leaf) = "None" THEN "null" ELSE EncodedLeaf(v.leaf)
    IN  CASE v.ty = "NoneType" -> JNull
          [] v.ty = "bool" -> JVal(IF v.n = 1 THEN "true" ELSE "false", 0, "", "plain")
          [] v.ty = "int" -> JNum(v.n)
          [] v.ty = "str" -> JStr(v.s)
          [] v.ty = "list" -> JVal("array", v.n, "", leaf)
          [] OTHER -> JVal("object", v.n, v.s, leaf)

\* --------------------------------------------------------------- exceptions
\* A raised exception is the sequence <<e, e.__cause__, e.__cause__.__cause__,
\* ...>> of links [cls, arg, code]: the class, the single constructor argument
\* and, for a WsError, its code.
Link(cls, arg, code) == [cls |-> cls, arg |-> arg, code |-> code]

\* WsError.__init__(msg, code=500)
WsError(msg, code) == Link("WsError", msg, code)
WsErrorDefault(msg) == WsError(msg, StatusError)
PyExc(cls, arg) == Link(cls, arg, 0)

NoExc == << >>

\* str(e): the argument; KeyError shows the repr of its key.
ExcStr(l) == IF l.cls = "KeyError" THEN "'" \o l.arg \o "'" ELSE l.arg

\* traceback.format_exception_only, as TracebackException.format ends.
FormatExceptionOnly(l) ==
    IF ExcStr(l) = "" THEN l.cls \o "\n" ELSE l.cls \o ": " \o ExcStr(l) \o "\n"

CauseMessage ==
    "\nThe above exception was the direct cause of the following exception:\n\n"

\* TracebackException.from_exception(chain[1]).format(): the cause's chain
\* first (chain=True), then the exception's own stack and last line.
RECURSIVE TracebackFormat(_)
TracebackFormat(chain) ==
    LET own == << "Traceback (most recent call last):\n",
                  "  File \"handler.py\", in callback\n",
                  FormatExceptionOnly(chain[1]) >>
    IN  IF Len(chain) > 1
          THEN TracebackFormat(Tail(chain)) \o << CauseMessage >> \o own
          ELSE own

\* ''.join(lines)
RECURSIVE Join(_)
Join(lines) == IF lines = << >> THEN "" ELSE Head(lines) \o Join(Tail(lines))

\* Lines 87-90: the (status, data, traceback) of a raised exception e.
\* e.__cause__ if e.__cause__ else e
TracebackBasisMutant(chain) == chain
TracebackBasis(chain) == IF Len(chain) > 1 THEN Tail(chain) ELSE chain
ClassifyStatusMutant(chain) == StatusError
ClassifyStatus(chain) == IF chain[1].cls = "WsError" THEN chain[1].code ELSE StatusError
ClassifyDataMutant(chain) == PyStr(ExcStr(TracebackBasis(chain)[1]))
ClassifyData(chain) == PyStr(ExcStr(chain[1]))
ClassifyTraceback(chain) == PyStr(Join(TracebackFormat(TracebackBasis(chain))))

\* ----------------------------------------------------------- inbound bytes
\* The bytes the native client hands to the dispatcher: wf says whether they
\* are JSON at all, top the kind of the top-level JSON value, keys the members
\* of a top-level object, and type, id, data their values.
Raw(wf, top, keys, type, id, data) ==
    [wf |-> wf, top |-> top, keys |-> keys, type |-> type, id |-> id, data |-> data]

RegisteredTypes == {"ProjectInfo", "ProjectDirectory", "EnableLayersWFS", "UpdateQgisProject"}
UnregisteredTypes == {"Echo"}
CommandTypes == RegisteredTypes \cup UnregisteredTypes

CommandIds == {JStr("42"), JNum(0)}
CommandData == {JStr("hi"), JEmptyObject,
                JObject1("skip_layers_with_error", "true"),
                JObject1("short_names", "dict")}

NotJson == Raw(FALSE, "none", {}, "", JNull, JNull)
JsonArray == Raw(TRUE, "array", {}, "", JNull, JNull)

Commands ==
    { Raw(TRUE, "object", {"type"} \cup ks, t,
          IF "id" \in ks THEN i ELSE JNull,
          IF "data" \in ks THEN d ELSE JNull) :
        ks \in SUBSET {"id", "data"}, t \in CommandTypes,
        i \in CommandIds, d \in CommandData }

TypelessObjects ==
    { Raw(TRUE, "object", ks, "", IF "id" \in ks THEN i ELSE JNull, JNull) :
        ks \in SUBSET {"id"}, i \in CommandIds }

RawMessages == {NotJson, JsonArray} \cup TypelessObjects \cup Commands

\* json.loads(msg), line 75: raises on bytes that are not JSON, else gives the
\* Python value (a dict for a JSON object).
LoadsRaises(raw) == ~raw.wf
Loads(raw) ==
    [isDict |-> raw.top = "object", keys |-> raw.keys, type |-> raw.type,
     id |-> FromJson(raw.id), data |-> FromJson(raw.data)]

\* msg.get("data")
MsgGetData(msg) == IF "data" \in msg.keys THEN msg.data ELSE PyNone

\* ----------------------------------------------------------------- handlers
\* What one invocation of the handler does: returns value or raises exc,
\* having taken `branch` of its code and written the project `writes` times.
Returns(v, branch, writes) ==
    [raised |-> FALSE, value |-> v, exc |-> NoExc, branch |-> branch, writes |-> writes]
Raises(chain, branch) ==
    [raised |-> TRUE, value |-> PyNone, exc |-> chain, branch |-> branch, writes |-> 0]
NotInvoked == Returns(PyNone, "none", 0)

\* WebGisPlugin.get_project_info / get_project_layers: the project's metadata,
\* or, when a layer's metadata cannot be collected and layers with errors are
\* not skipped, an Exception raised from the layer's error.
GetProjectInfo(skip) ==
    {Returns(PyDict1("layers", "dict"), "ProjectInfo", 0)}
    \cup IF Truthy(skip) THEN {}
         ELSE {Raises(<< PyExc("Exception", "Failed to collect metadata of layer 'roads'"),
                         PyExc("RuntimeError", "provider") >>, "ProjectInfo")}

\* x.get(...) on a value that is no dict
NoGetAttr(v) == Raises(<< PyExc("AttributeError", "'" \o v.ty \o "' object has no attribute 'get'") >>, "data.get")

\* WebGisPlugin.toggle_tool.callback
PluginCallbackMutant(msg, open) ==
    IF ~open /\ msg.type # "ProjectInfo"
      THEN {Raises(<< WsError("Project is not opened", StatusNotOpened) >>, "not_opened")}
      ELSE {Returns(PyDict1("layers", "dict"), "ProjectInfo", 0)}
PluginCallback(msg, open) ==
    LET data == MsgGetData(msg) IN
    IF ~open
      THEN {Raises(<< WsError("Project is not opened", StatusNotOpened) >>, "not_opened")}
    ELSE IF msg.type = "ProjectInfo"
      THEN IF Truthy(data)
             THEN IF data.ty = "dict"
                    THEN GetProjectInfo(DictGet(data, "skip_layers_with_error", PyBool(FALSE)))
                    ELSE {NoGetAttr(data)}
             ELSE {Raises(<< PyExc("UnboundLocalError", "local variable 'skip_layers_with_error' referenced before assignment") >>, "ProjectInfo")}
    ELSE IF msg.type = "ProjectDirectory"
      THEN {Returns(PyStr("/home/user/project"), "ProjectDirectory", 0)}
    ELSE IF msg.type = "EnableLayersWFS"
      THEN {Returns(PyNone, "EnableLayersWFS", 1)}
    ELSE IF msg.type = "UpdateQgisProject"
      THEN IF data.ty = "dict"
             THEN {Returns(PyNone, "UpdateQgisProject", 1)}
             ELSE {NoGetAttr(data)}
    ELSE {Raises(<< PyExc("ValueError", "Unknown message type: " \o msg.type) >>, "unknown")}

\* A handler passed to start() by another caller: it may return any value or
\* raise any exception.
StubValues ==
    {PyNone, PyInt(0), PyInt(7), PyBool(FALSE), PyBool(TRUE), PyStr(""), PyStr("ok"),
     PyList(0, "plain"), PyList(1, "plain"), PyList(1, "NULL"), PyEmptyDict,
     PyDict1("a", "plain"), PyDict1("a", "NULL"), PyDict1("a", "object"), PyObject}

RaisedLinks ==
    {WsError("Project is not opened", StatusNotOpened), WsErrorDefault("denied"),
     WsError("forbidden", 403), WsError("done", StatusOk),
     PyExc("ValueError", "boom"), PyExc("KeyError", "k"),
     PyExc("Exception", "")}
CauseLinks == {WsError("inner", 403), PyExc("ValueError", "root")}

RECURSIVE Chains(_)
Chains(n) ==
    IF n = 1 THEN {<< l >> : l \in RaisedLinks}
    ELSE Chains(n - 1)
         \cup {c \o << l >> : c \in {c \in Chains(n - 1) : Len(c) = n - 1}, l \in CauseLinks}

StubCallback(msg) ==
    {Returns(v, "stub", 0) : v \in StubValues}
    \cup {Returns(MsgGetData(msg), "echo", 0)}
    \cup {Raises(c, "stub") : c \in Chains(MaxChain)}

Callbacks == {"plugin", "stub"}
Invoke(cb, msg, open) == IF cb = "plugin" THEN PluginCallback(msg, open) ELSE StubCallback(msg)

\* --------------------------------------------------------------- dispatcher
\* GisquickWs.start.callback_wrapper, lines 73-103.

\* The response dict under construction: keys are the members set so far.
\* Lines 76-80: the type, and the id when the message has one.
RespHeadMutant(msg) ==
    [keys |-> {"type"} \cup (IF "id" \in msg.keys /\ Truthy(msg.id) THEN {"id"} ELSE {}),
     type |-> msg.type,
     id |-> IF "id" \in msg.keys /\ Truthy(msg.id) THEN msg.id ELSE PyNone,
     status |-> 0, data |-> PyNone, traceback |-> PyStr("")]
RespHead(msg) ==
    [keys |-> {"type"} \cup (IF "id" \in msg.keys THEN {"id"} ELSE {}),
     type |-> msg.type,
     id |-> IF "id" \in msg.keys THEN msg.id ELSE PyNone,
     status |-> 0, data |-> PyNone, traceback |-> PyStr("")]

\* Line 82: callback(msg) or ""
RetValueMutant(v) == v
RetValue(v) == PyOr(v, PyStr(""))

\* Lines 81-90: the try/except around the handler, given what the handler did.
TryExceptMutant(resp, o) ==
    IF ~o.raised
      THEN [resp EXCEPT !.keys = @ \cup {"status", "data"},
                        !.status = StatusOk,
                        !.data = RetValue(o.value)]
      ELSE [resp EXCEPT !.keys = @ \cup {"status", "data"}
                                     \cup (IF o.exc[1].cls = "WsError" THEN {} ELSE {"traceback"}),
                        !.status = ClassifyStatus(o.exc),
                        !.data = ClassifyData(o.exc),
                        !.traceback = ClassifyTraceback(o.exc)]
TryExcept(resp, o) ==
    IF ~o.raised
      THEN [resp EXCEPT !.keys = @ \cup {"status", "data"},
                        !.status = StatusOk,
                        !.data = RetValue(o.value)]
      ELSE [resp EXCEPT !.keys = @ \cup {"status", "data", "traceback"},
                        !.status = ClassifyStatus(o.exc),
                        !.data = ClassifyData(o.exc),
                        !.traceback = ClassifyTraceback(o.exc)]

\* Line 103: json.dumps(resp, cls=GisquickJSONEncoder), for a resp it can encode.
Dumps(resp) ==
    [keys |-> resp.keys, type |-> resp.type, id |-> ToJson(resp.id),
     status |-> resp.status, data |-> ToJson(resp.data),
     traceback |-> resp.traceback.s]

NoBytes ==
    [keys |-> {}, type |-> "", id |-> JNull, status |-> 0, data |-> JNull,
     traceback |-> ""]

\* Whether lines 75-77 pass, so that the handler is called at line 82.
HandlerReached(raw) == ~LoadsRaises(raw) /\ raw.top = "object" /\ "type" \in raw.keys

\* The exception lines 75-77 raise otherwise, outside any try.
RaisedBeforeHandler(raw) ==
    IF LoadsRaises(raw) THEN << PyExc("JSONDecodeError", "Expecting value") >>
    ELSE IF raw.top # "object"
      THEN << PyExc("TypeError", "list indices must be integers or slices, not str") >>
    ELSE << PyExc("KeyError", "type") >>

\* One call of callback_wrapper on bytes raw, where the handler, if called,
\* does o. The result: whether bytes were returned and which, the exception
\* that left the function otherwise (ctypes then hands the native caller a
\* null pointer), and how often the handler was called.
CallbackWrapper(raw, o) ==
    IF ~HandlerReached(raw)
      THEN [returned |-> FALSE, out |-> NoBytes, escaped |-> RaisedBeforeHandler(raw),
            calls |-> 0]
      ELSE LET resp == TryExcept(RespHead(Loads(raw)), o) IN
           IF Encodable(resp.data)
             THEN [returned |-> TRUE, out |-> Dumps(resp), escaped |-> NoExc, calls |-> 1]
             ELSE [returned |-> FALSE, out |-> NoBytes,
                   escaped |-> << PyExc("TypeError", "Object is not JSON serializable") >>,
                   calls |-> 1]

\* ------------------------------------------------------------ string marshal
\* A host string is None or a str, the sequence of its code points.
HostStr(cps) == [isNone |-> FALSE, cp |-> cps]
HostNone == [isNone |-> TRUE, cp |-> << >>]

\* str.encode("utf-8") of one code point.
Utf8(c) ==
    IF c < 128 THEN << c >>
    ELSE IF c < 2048 THEN << 192 + (c \div 64), 128 + (c % 64) >>
    ELSE IF c < 65536
      THEN << 224 + (c \div 4096), 128 + ((c \div 64) % 64), 128 + (c % 64) >>
    ELSE << 240 + (c \div 262144), 128 + ((c \div 4096) % 64),
            128 + ((c \div 64) % 64), 128 + (c % 64) >>

\* s.encode("utf-8")
RECURSIVE EncodeUtf8(_)
EncodeUtf8(cps) ==
    IF cps = << >> THEN << >> ELSE Utf8(Head(cps)) \o EncodeUtf8(Tail(cps))

\* go_string(s), lines 25-26: GoString(s.encode("utf-8"), len(s)), for a str s.
GoString(s) == [p |-> EncodeUtf8(s.cp), n |-> Len(s.cp)]

\* The four go_string calls of lines 111-114; a None argument raises
\* AttributeError (None has no encode) inside the try of line 109.
MarshalArgs(a) ==
    [raised |-> \E i \in 1..Len(a) : a[i].isNone,
     gos |-> [i \in 1..Len(a) |-> GoString(a[i])]]

\* json.dumps writes a str inside quotes with every non-ASCII character as
\* \uXXXX (ensure_ascii); the names used here are in the basic plane.
HexDigit(d) == IF d < 10 THEN 48 + d ELSE 87 + d
JsonEscape(c) ==
    IF c < 128 THEN << c >>
    ELSE << 92, 117, HexDigit((c \div 4096) % 16), HexDigit((c \div 256) % 16),
            HexDigit((c \div 16) % 16), HexDigit(c % 16) >>
RECURSIVE JsonEscapeAll(_)
JsonEscapeAll(cps) ==
    IF cps = << >> THEN << >> ELSE JsonEscape(Head(cps)) \o JsonEscapeAll(Tail(cps))

\* send, lines 126-132: json.dumps({"type": name}) or, when data is not None,
\* json.dumps({"type": name, "data": data}), for data an int.
SendText(name, data) ==
    HostStr(<< 123, 34, 116, 121, 112, 101, 34, 58, 32, 34 >> \o JsonEscapeAll(name.cp)
            \o << 34 >>
            \o (IF data = PyNone THEN << >>
                ELSE << 44, 32, 34, 100, 97, 116, 97, 34, 58, 32, 48 + data.n >>)
            \o << 125 >>)

\* The url, username, password and client_info the host passes to start():
\* settings values (None when never set) and the plugin's client string.
Credentials ==
    { << u, HostStr(<< 97 >>), w, HostStr(<< 71 >>) >> :
        u \in {HostStr(<< 104 >>), HostNone},
        w \in {HostStr(<< 112 >>), HostStr(<< 233 >>), HostStr(<< 8364, 49 >>),
               HostStr(<< 128512 >>)} }
AsciiCredentials ==
    { << HostStr(<< 104 >>), HostStr(<< 97 >>), HostStr(<< 112 >>), HostStr(<< 71 >>) >> }

\* on_project_change sends "ProjectChanged"; another caller may send any name.
SendNames == {HostStr(<< 80, 114, 111, 106, 101, 99, 116, 67, 104, 97, 110, 103, 101, 100 >>),
              HostStr(<< 90, 109, 283, 110, 97 >>)}
SendData == {PyNone, PyInt(0)}

\* ------------------------------------------------------------------- state
VARIABLES
    lib,            \* GisquickWs._lib: NoLib, or the handle LoadLibrary returned
    loadCount,      \* how many times LoadLibrary has loaded the artifact
    pc,             \* the start() call: "idle" (none in progress), "loading"
                    \* (called, _load_lib not yet run), "running" (inside native Start)
    callback,       \* the handler passed to the start() call
    projectOpen,    \* whether QgsProject.instance().fileName() is non-empty
    starts,         \* start() calls made
    exitCode,       \* what the last start() returned (NoExit before any return)
    startRaised,    \* whether the last start() call raised out of _load_lib
    reply,          \* the dispatch whose result the native caller holds: the
                    \* bytes it delivered, what the handler did, the result
    args,           \* the url, username, password, client_info of the start() call
    native,         \* the native client: how often Start, Stop and SendMessage
                    \* were called, the GoStrings of the last call, what Start
                    \* last returned, whether Stop was called during this run
    hist,           \* the host side: stop() and send() calls made, stop() calls
                    \* during this run, onConnected calls during this run,
                    \* _unload_lib runs, whether the last LoadLibrary call failed,
                    \* whether the last start() raised inside its try block
    threads,        \* per worker thread, its place in start() and the handle
                    \* LoadLibrary gave it
    deliveries,     \* per native thread that delivers commands, its place in
                    \* callback_wrapper, the bytes it delivered and what the
                    \* handler it called does
    info,           \* the project a ProjectInfo command was answered on and the
                    \* layers map get_project_layers built for it
    plugin          \* WebGisPlugin: self.ws, the toolbar action's check state,
                    \* the connections of the project signals, the notification
                    \* widget, the warnings shown, and each WebsocketServer
                    \* thread created

vars == << lib, loadCount, pc, callback, projectOpen, starts, exitCode, startRaised,
           reply, args, native, hist, threads, deliveries, info, plugin >>

NoLib == 0
NoExit == -1
ExitCodes == {0, 1}
Threads == {1, 2}

\* The native threads that may deliver commands at the same time.
NativeThreads == {1, 2}
NoDelivery == [pc |-> "idle", raw |-> NotJson, o |-> NotInvoked]

\* The layers of the open project, in the order project.mapLayers() gives
\* them (by id), and layer.name() of each.
LayerIds == << "l1", "l2", "l3" >>
LayerSet == {LayerIds[i] : i \in 1..Len(LayerIds)}
LayerName(lid) == CASE lid = "l1" -> "dem" [] lid = "l2" -> "rivers" [] OTHER -> "roads"

\* A project says of each layer whether it is in the layer tree and whether
\* collecting its metadata raises.
Projects == [LayerSet -> [inTree : BOOLEAN, fails : BOOLEAN]]
NoInfo == [n |-> 0, project |-> [l \in LayerSet |-> [inTree |-> FALSE, fails |-> FALSE]],
           skip |-> FALSE, layers |-> {}, error |-> NoExc]

\* No WebsocketServer thread created yet: self.ws is None (class attribute,
\* line 93), the action unchecked, no signal connected.
NoWs == 0
Workers == 1..MaxWorkers
NoWorker == [st |-> "none", res |-> NoExit, emitted |-> 0, handled |-> 0]
NoPlugin == [ws |-> NoWs, checked |-> FALSE, conn |-> 0, widget |-> FALSE,
             warnings |-> 0, popped |-> 0, changeCalls |-> 0, stops |-> 0,
             disconnectFailed |-> FALSE, unloaded |-> FALSE,
             workers |-> [w \in Workers |-> NoWorker]]

NoReply == [n |-> 0, raw |-> NotJson, o |-> NotInvoked,
            res |-> [returned |-> FALSE, out |-> NoBytes, escaped |-> NoExc, calls |-> 0]]

Init ==
    /\ lib = NoLib
    /\ loadCount = 0
    /\ pc = "idle"
    /\ callback = "plugin"
    /\ projectOpen \in BOOLEAN
    /\ starts = 0
    /\ exitCode = NoExit
    /\ startRaised = FALSE
    /\ reply = NoReply
    /\ args = << >>
    /\ native = [nStart |-> 0, nStop |-> 0, nSend |-> 0, lastArgs |-> << >>,
                 exit |-> NoExit, stopRequested |-> FALSE]
    /\ hist = [stopCalls |-> 0, sendCalls |-> 0, stopAsked |-> FALSE, connected |-> 0,
               unloads |-> 0, loaderFailed |-> FALSE, tryRaised |-> FALSE]
    /\ threads = [t \in Threads |-> [pc |-> "idle", handle |-> NoLib]]
    /\ deliveries = [d \in NativeThreads |-> NoDelivery]
    /\ info = NoInfo
    /\ plugin = NoPlugin

\* ---------------------------------------------------------------- lifecycle
\* GisquickWs._load_lib, lines 47-51: load the artifact unless a handle is
\* stored. ok says whether ctypes.cdll.LoadLibrary succeeds; it raises OSError
\* otherwise and nothing is stored.
LoadLibMutant(h, n, ok) ==
    IF h = NoLib /\ ok THEN [lib |-> n + 1, loads |-> n + 1, raised |-> FALSE]
                       ELSE [lib |-> h, loads |-> n, raised |-> FALSE]
LoadLibStoresMutant(h, n, ok) ==
    IF h = NoLib
      THEN [lib |-> n + 1, loads |-> IF ok THEN n + 1 ELSE n, raised |-> ~ok]
      ELSE [lib |-> h, loads |-> n, raised |-> FALSE]
LoadLib(h, n, ok) ==
    IF h = NoLib
      THEN IF ok THEN [lib |-> n + 1, loads |-> n + 1, raised |-> FALSE]
                 ELSE [lib |-> NoLib, loads |-> n, raised |-> TRUE]
      ELSE [lib |-> h, loads |-> n, raised |-> FALSE]

\* Whether this call of _load_lib calls LoadLibrary and it fails.
LoaderFails(h, ok) == h = NoLib /\ ~ok

\* GisquickWs._unload_lib, lines 53-54: returns at once; the handle stays.
UnloadLibMutant(h) == NoLib
UnloadLib(h) == h

\* Lines 109-119, try: return self._lib.Start(...) finally: self._unload_lib():
\* what start gives its caller when the try block raised or Start returned
\* code, and whether _unload_lib ran.
StartTryFinallyMutant(raised, code) ==
    [raised |-> raised, code |-> IF raised THEN NoExit ELSE code, unloaded |-> ~raised]
StartTryFinally(raised, code) ==
    [raised |-> raised, code |-> IF raised THEN NoExit ELSE code, unloaded |-> TRUE]

\* Lines 122 and 131: if self._lib
StopCallsNativeMutant(h) == FALSE
StopCallsNative(h) == h # NoLib
SendCallsNativeMutant(h) == TRUE
SendCallsNative(h) == h # NoLib

\* success_callback_wrapper, lines 105-107: every call of the function pointer
\* calls success_callback(); n counts the calls made to the host so far.
SuccessCallbackWrapper(n) == n + 1

\* load(): a call of _load_lib on the singleton, between start() calls.
Load ==
    /\ pc = "idle"
    /\ \E ok \in BOOLEAN :
         LET r == LoadLib(lib, loadCount, ok) IN
         /\ lib' = r.lib
         /\ loadCount' = r.loads
         /\ hist' = [hist EXCEPT !.loaderFailed = LoaderFails(lib, ok)]
    /\ UNCHANGED << pc, callback, projectOpen, starts, exitCode, startRaised, reply,
                    args, native, threads, deliveries, info, plugin >>

\* The host calls start(url, username, password, client_info, callback,
\* success_callback), line 70.
StartCall(cs, cbs) ==
    /\ pc = "idle"
    /\ starts < MaxStarts
    /\ \E cb \in cbs, a \in cs :
         /\ callback' = cb
         /\ args' = a
    /\ pc' = "loading"
    /\ starts' = starts + 1
    /\ startRaised' = FALSE
    /\ native' = [native EXCEPT !.stopRequested = FALSE]
    /\ hist' = [hist EXCEPT !.stopAsked = FALSE, !.connected = 0, !.tryRaised = FALSE]
    /\ UNCHANGED << lib, loadCount, projectOpen, exitCode, reply, threads, deliveries, info, plugin >>

\* start(...), lines 71-117 up to the native call: _load_lib, then the
\* arguments are marshalled and the thread enters native Start and blocks
\* there. A failed load raises out of start; an argument that cannot be
\* marshalled raises inside the try, so _unload_lib runs before start raises.
StartEnter ==
    /\ pc = "loading"
    /\ \E ok \in BOOLEAN :
         LET r == LoadLib(lib, loadCount, ok)
             m == MarshalArgs(args)
             x == StartTryFinally(TRUE, NoExit)
         IN  /\ loadCount' = r.loads
             /\ startRaised' = r.raised
             /\ IF r.raised
                  THEN /\ lib' = r.lib
                       /\ pc' = "idle"
                       /\ native' = native
                       /\ hist' = [hist EXCEPT !.loaderFailed = LoaderFails(lib, ok)]
                  ELSE IF m.raised
                  THEN /\ lib' = IF x.unloaded THEN UnloadLib(r.lib) ELSE r.lib
                       /\ pc' = "idle"
                       /\ native' = native
                       /\ hist' = [hist EXCEPT !.loaderFailed = LoaderFails(lib, ok),
                                               !.tryRaised = x.raised,
                                               !.unloads = IF x.unloaded THEN @ + 1 ELSE @]
                  ELSE /\ lib' = r.lib
                       /\ pc' = "running"
                       /\ native' = [native EXCEPT !.nStart = @ + 1, !.lastArgs = m.gos]
                       /\ hist' = [hist EXCEPT !.loaderFailed = LoaderFails(lib, ok)]
    /\ UNCHANGED << callback, projectOpen, starts, exitCode, reply, args, threads, deliveries, info, plugin >>

\* Native Start returns code; lines 118-119 run _unload_lib and start returns
\* the code to its caller.
StartReturn ==
    /\ pc = "running"
    /\ reply.n = 0
    /\ \E code \in ExitCodes :
         LET x == StartTryFinally(FALSE, code) IN
         /\ exitCode' = x.code
         /\ native' = [native EXCEPT !.exit = code]
         /\ lib' = IF x.unloaded THEN UnloadLib(lib) ELSE lib
         /\ hist' = [hist EXCEPT !.unloads = IF x.unloaded THEN @ + 1 ELSE @]
    /\ pc' = "idle"
    /\ UNCHANGED << loadCount, callback, projectOpen, starts, startRaised, reply,
                    args, threads, deliveries, info, plugin >>

\* The native client delivers one inbound command to callback_wrapper and
\* holds what the call gave back.
Dispatch(raws) ==
    /\ pc = "running"
    /\ reply.n = 0
    /\ \E raw \in raws :
         \E o \in (IF HandlerReached(raw) THEN Invoke(callback, Loads(raw), projectOpen)
                                          ELSE {NotInvoked}) :
            reply' = [n |-> 1, raw |-> raw, o |-> o, res |-> CallbackWrapper(raw, o)]
    /\ UNCHANGED << lib, loadCount, pc, callback, projectOpen, starts, exitCode,
                    startRaised, args, native, hist, threads, deliveries, info, plugin >>

\* The native client sends the bytes it was given to the server (or drops the
\* command when it was given none) and goes on with its loop.
ReplyTaken ==
    /\ reply.n = 1
    /\ reply' = NoReply
    /\ info' = NoInfo
    /\ UNCHANGED << lib, loadCount, pc, callback, projectOpen, starts, exitCode,
                    startRaised, args, native, hist, threads, deliveries, plugin >>

\* The host opens or closes a project.
ToggleProject ==
    /\ reply.n = 0
    /\ projectOpen' = ~projectOpen
    /\ UNCHANGED << lib, loadCount, pc, callback, starts, exitCode, startRaised,
                    reply, args, native, hist, threads, deliveries, info, plugin >>

\* stop(), lines 121-123, called from the host's thread at any time.
Stop ==
    /\ hist.stopCalls < MaxOps
    /\ hist' = [hist EXCEPT !.stopCalls = @ + 1, !.stopAsked = @ \/ pc = "running"]
    /\ native' = IF StopCallsNative(lib)
                   THEN [native EXCEPT !.nStop = @ + 1,
                                       !.stopRequested = @ \/ pc = "running"]
                   ELSE native
    /\ UNCHANGED << lib, loadCount, pc, callback, projectOpen, starts, exitCode,
                    startRaised, reply, args, threads, deliveries, info, plugin >>

\* send(name, data), lines 125-132, called from the host's thread at any time.
Send ==
    /\ hist.sendCalls < MaxOps
    /\ hist' = [hist EXCEPT !.sendCalls = @ + 1]
    /\ \E name \in SendNames, data \in SendData :
         native' = IF SendCallsNative(lib)
                     THEN [native EXCEPT !.nSend = @ + 1,
                                         !.lastArgs = << GoString(SendText(name, data)) >>]
                     ELSE native
    /\ UNCHANGED << lib, loadCount, pc, callback, projectOpen, starts, exitCode,
                    startRaised, reply, args, threads, deliveries, info, plugin >>

\* The native client calls the success function pointer.
Connected ==
    /\ pc = "running"
    /\ hist.connected < MaxConnects
    /\ hist' = [hist EXCEPT !.connected = SuccessCallbackWrapper(@)]
    /\ UNCHANGED << lib, loadCount, pc, callback, projectOpen, starts, exitCode,
                    startRaised, reply, args, native, threads, deliveries, info, plugin >>

\* The dispatcher with every inbound message, under a host that starts and
\* loads but neither stops nor sends.
Next ==
    \/ Load
    \/ StartCall(AsciiCredentials, Callbacks)
    \/ StartEnter
    \/ StartReturn
    \/ Dispatch(RawMessages)
    \/ ReplyTaken
    \/ ToggleProject

Spec == Init /\ [][Next]_vars

\* The whole controller under the plugin's handler, with one inbound message.
SampleMessages == {Raw(TRUE, "object", {"type", "id"}, "Echo", JStr("42"), JNull)}

NextLifecycle ==
    \/ Load
    \/ StartCall(Credentials, {"plugin"})
    \/ StartEnter
    \/ StartReturn
    \/ Dispatch(SampleMessages)
    \/ ReplyTaken
    \/ Stop
    \/ Send
    \/ Connected

Lifecycle == Init /\ [][NextLifecycle]_vars

\* ------------------------------------------------------------------ threads
\* Two worker threads (WebsocketServer.run, webgisplugin.py 670-679) call
\* start() on the shared instance; each statement of _load_lib is a step.
SeqVars == << pc, callback, projectOpen, exitCode, startRaised, reply, args, hist,
             deliveries, info, plugin >>

\* A thread calls start(), line 70.
TCall(t) ==
    /\ threads[t].pc = "idle"
    /\ starts < MaxStarts
    /\ starts' = starts + 1
    /\ threads' = [threads EXCEPT ![t] = [pc |-> "check", handle |-> NoLib]]
    /\ UNCHANGED << lib, loadCount, native, SeqVars >>

\* Line 48: if not self._lib
TCheck(t) ==
    /\ threads[t].pc = "check"
    /\ threads' = [threads EXCEPT ![t].pc = IF lib = NoLib THEN "load" ELSE "enter"]
    /\ UNCHANGED << lib, loadCount, starts, native, SeqVars >>

\* Line 51, right-hand side: ctypes.cdll.LoadLibrary(lib_path) loads the
\* artifact and makes a handle, or raises out of start().
TLoadLibrary(t) ==
    /\ threads[t].pc = "load"
    /\ \E ok \in BOOLEAN :
         LET r == LoadLib(NoLib, loadCount, ok) IN
         /\ loadCount' = r.loads
         /\ threads' = [threads EXCEPT ![t] = [pc |-> IF r.raised THEN "idle" ELSE "store",
                                               handle |-> r.lib]]
    /\ UNCHANGED << lib, starts, native, SeqVars >>

\* Line 51, assignment: self._lib = <the handle>
TStore(t) ==
    /\ threads[t].pc = "store"
    /\ lib' = threads[t].handle
    /\ threads' = [threads EXCEPT ![t].pc = "enter"]
    /\ UNCHANGED << loadCount, starts, native, SeqVars >>

\* Lines 109-117: the thread enters native Start.
TEnter(t) ==
    /\ threads[t].pc = "enter"
    /\ native' = [native EXCEPT !.nStart = @ + 1]
    /\ threads' = [threads EXCEPT ![t].pc = "running"]
    /\ UNCHANGED << lib, loadCount, starts, SeqVars >>

\* Native Start returns in this thread; _unload_lib, then start() returns.
TReturn(t) ==
    /\ threads[t].pc = "running"
    /\ \E code \in ExitCodes : native' = [native EXCEPT !.exit = code]
    /\ lib' = UnloadLib(lib)
    /\ threads' = [threads EXCEPT ![t].pc = "idle"]
    /\ UNCHANGED << loadCount, starts, SeqVars >>

NextThreads ==
    \E t \in Threads :
        \/ TCall(t)
        \/ TCheck(t)
        \/ TLoadLibrary(t)
        \/ TStore(t)
        \/ TEnter(t)
        \/ TReturn(t)

ThreadsSpec == Init /\ [][NextThreads]_vars

\* A start() call runs alone on the singleton while the host stops it; the
\* native loop returns once Stop has been called during the run.
NativeHonoursStop == native.stopRequested /\ StartReturn

NextStop ==
    \/ StartCall(AsciiCredentials, {"plugin"})
    \/ StartEnter
    \/ StartReturn
    \/ Stop
    \/ Send
    \/ Connected
    \/ ToggleProject

StopFair == Init /\ [][NextStop]_vars /\ WF_vars(NativeHonoursStop)

\* ------------------------------------------------------------- project info
\* What collecting a layer's metadata may raise.
LayerErrors == {PyExc("RuntimeError", "provider"), PyExc("KeyError", "crs")}

\* WebGisPlugin.get_project_layers, lines 273-453: the loop over the project's
\* layers. A layer that is not in the layer tree is passed over; a layer whose
\* metadata cannot be collected is passed over when skip is true and ends the
\* loop with an exception otherwise; every other layer is put in data.
RECURSIVE GetProjectLayersMutant(_, _, _, _)
GetProjectLayersMutant(order, proj, skip, data) ==
    IF order = << >> THEN [raised |-> FALSE, layers |-> data, failed |-> ""]
    ELSE LET lid == Head(order) IN
         IF ~proj[lid].inTree THEN GetProjectLayersMutant(Tail(order), proj, skip, data)
         ELSE IF proj[lid].fails
           THEN IF skip THEN [raised |-> FALSE, layers |-> data, failed |-> ""]
                        ELSE [raised |-> TRUE, layers |-> {}, failed |-> lid]
         ELSE GetProjectLayersMutant(Tail(order), proj, skip, data \cup {lid})

RECURSIVE GetProjectLayers(_, _, _, _)
GetProjectLayers(order, proj, skip, data) ==
    IF order = << >> THEN [raised |-> FALSE, layers |-> data, failed |-> ""]
    ELSE LET lid == Head(order) IN
         IF ~proj[lid].inTree THEN GetProjectLayers(Tail(order), proj, skip, data)
         ELSE IF proj[lid].fails
           THEN IF skip THEN GetProjectLayers(Tail(order), proj, skip, data)
                        ELSE [raised |-> TRUE, layers |-> {}, failed |-> lid]
         ELSE GetProjectLayers(Tail(order), proj, skip, data \cup {lid})

\* Line 449: raise Exception("Failed to collect metadata of layer '%s'" %
\* layer.name()) from e
LayerFailure(lid, e) ==
    << PyExc("Exception", "Failed to collect metadata of layer '" \o LayerName(lid) \o "'"), e >>

\* The handler's ProjectInfo branch (lines 614-617) on project proj, where a
\* failing layer raises e: what the handler does and the layers map built.
GetProjectInfoOn(proj, skip, e) ==
    LET r == GetProjectLayers(LayerIds, proj, skip, {}) IN
    [o |-> IF r.raised THEN Raises(LayerFailure(r.failed, e), "ProjectInfo")
                       ELSE Returns(PyDict1("layers", "dict"), "ProjectInfo", 0),
     layers |-> r.layers]

\* The native client delivers a ProjectInfo command whose data says whether
\* to skip layers with errors, while the host has project proj open.
DispatchInfo ==
    /\ pc = "running"
    /\ reply.n = 0
    /\ callback = "plugin"
    /\ \E proj \in Projects, skip \in BOOLEAN, e \in LayerErrors :
         LET raw == Raw(TRUE, "object", {"type", "id", "data"}, "ProjectInfo", JStr("42"),
                        JObject1("skip_layers_with_error", IF skip THEN "true" ELSE "false"))
             msg == Loads(raw)
             g == GetProjectInfoOn(proj,
                      Truthy(DictGet(MsgGetData(msg), "skip_layers_with_error", PyBool(FALSE))), e)
         IN  \E o \in (IF projectOpen THEN {g.o} ELSE PluginCallback(msg, FALSE)) :
               /\ reply' = [n |-> 1, raw |-> raw, o |-> o, res |-> CallbackWrapper(raw, o)]
               /\ info' = [n |-> 1, project |-> proj, skip |-> skip,
                           layers |-> IF projectOpen THEN g.layers ELSE {}, error |-> << e >>]
    /\ UNCHANGED << lib, loadCount, pc, callback, projectOpen, starts, exitCode,
                    startRaised, args, native, hist, threads, deliveries, plugin >>

NextInfo ==
    \/ StartCall(AsciiCredentials, {"plugin"})
    \/ StartEnter
    \/ StartReturn
    \/ DispatchInfo
    \/ ReplyTaken
    \/ ToggleProject

InfoSpec == Init /\ [][NextInfo]_vars

\* ------------------------------------------------------ concurrent delivery
\* Two native threads call the function pointer of callback_wrapper while
\* native Start runs. callback_wrapper (lines 73-103) takes no lock, so each
\* call goes through its statements on its own.
ConcurrentMessages ==
    {NotJson} \cup {Raw(TRUE, "object", {"type"}, t, JNull, JNull) : t \in CommandTypes}

\* Lines 75-82: the bytes are decoded, the head of the response is built and
\* the handler is entered; bytes that cannot be decoded raise out of the call.
DeliverBegin(d) ==
    /\ pc = "running"
    /\ deliveries[d].pc = "idle"
    /\ \E raw \in ConcurrentMessages :
         IF HandlerReached(raw)
           THEN \E o \in Invoke(callback, Loads(raw), projectOpen) :
                  deliveries' = [deliveries EXCEPT ![d] = [pc |-> "handler", raw |-> raw, o |-> o]]
           ELSE deliveries' = [deliveries EXCEPT ![d] = [pc |-> "idle", raw |-> raw,
                                                          o |-> NotInvoked]]
    /\ UNCHANGED << lib, loadCount, pc, callback, projectOpen, starts, exitCode,
                    startRaised, reply, args, native, hist, threads, info, plugin >>

\* Lines 82-90: the handler returns or raises and the response is filled in.
HandlerEnd(d) ==
    /\ deliveries[d].pc = "handler"
    /\ deliveries' = [deliveries EXCEPT ![d].pc = "encode"]
    /\ UNCHANGED << lib, loadCount, pc, callback, projectOpen, starts, exitCode,
                    startRaised, reply, args, native, hist, threads, info, plugin >>

\* Line 103: the response is encoded and handed to the native thread.
DeliverEnd(d) ==
    /\ deliveries[d].pc = "encode"
    /\ deliveries' = [deliveries EXCEPT ![d].pc = "idle"]
    /\ UNCHANGED << lib, loadCount, pc, callback, projectOpen, starts, exitCode,
                    startRaised, reply, args, native, hist, threads, info, plugin >>

\* The host opens or closes a project while commands are being handled.
ProjectSwitch ==
    /\ projectOpen' = ~projectOpen
    /\ UNCHANGED << lib, loadCount, pc, callback, starts, exitCode, startRaised,
                    reply, args, native, hist, threads, deliveries, info, plugin >>

NextConcurrent ==
    \/ StartCall(AsciiCredentials, {"plugin"})
    \/ StartEnter
    \/ ProjectSwitch
    \/ \E d \in NativeThreads :
         \/ DeliverBegin(d)
         \/ HandlerEnd(d)
         \/ DeliverEnd(d)

ConcurrentSpec == Init /\ [][NextConcurrent]_vars

\* ------------------------------------------------------------------- plugin
\* WebGisPlugin.toggle_tool and the WebsocketServer threads it creates. A
\* thread's run() is one blocking gisquick_ws.start call: "running" while the
\* call is in progress, "emitted" once it has returned res and run() has
\* emitted finished(res), "finished" once on_finished has run in the main
\* thread, "raised" when start raised and run() ended without a signal.
PluginVars == << lib, loadCount, pc, callback, projectOpen, starts, exitCode, startRaised,
                 reply, args, native, hist, threads, deliveries, info >>

Created == {w \in Workers : plugin.workers[w].st # "none"}
MaxOf(S) == IF S = {} THEN 0 ELSE LET x == CHOOSE x \in S : \A y \in S : y <= x IN x
Latest == MaxOf(Created)

\* on_finished(res), lines 681-690, on the plugin fields p; isCurrent says
\* whether the message bar's current item is the notification widget.
OnFinishedEffectMutant(p, res, isCurrent) ==
    [p EXCEPT !.ws = NoWs,
              !.checked = FALSE,
              !.warnings = @ + 1,
              !.popped = IF res = 0 /\ isCurrent /\ p.widget THEN @ + 1 ELSE @,
              !.widget = IF res = 0 THEN FALSE ELSE @]
OnFinishedEffect(p, res, isCurrent) ==
    [p EXCEPT !.ws = NoWs,
              !.checked = FALSE,
              !.warnings = IF res # 0 THEN @ + 1 ELSE @,
              !.popped = IF res = 0 /\ isCurrent /\ p.widget THEN @ + 1 ELSE @,
              !.widget = IF res = 0 THEN FALSE ELSE @]

\* The user checks the toolbar action: triggered(True) calls
\* toggle_tool(True), lines 655-701: a new thread is created, stored in
\* self.ws and started, and the three project signals are connected.
ClickOn ==
    /\ ~plugin.unloaded
    /\ ~plugin.checked
    /\ Latest < MaxWorkers
    /\ plugin' = [plugin EXCEPT !.checked = TRUE,
                                !.widget = FALSE,
                                !.ws = Latest + 1,
                                !.workers[Latest + 1].st = "running",
                                !.conn = @ + 1]
    /\ UNCHANGED PluginVars

\* The user unchecks the action: triggered(False) calls toggle_tool(False),
\* lines 702-706: the signals are disconnected (PyQt raises TypeError when the
\* handler is not connected, and takes away one connection or all of them
\* when it is connected more than once), then gisquick_ws.stop() is called
\* and returns at once. self.ws is left as it is.
ClickOff ==
    /\ ~plugin.unloaded
    /\ plugin.checked
    /\ IF plugin.conn = 0
         THEN plugin' = [plugin EXCEPT !.checked = FALSE, !.disconnectFailed = TRUE]
         ELSE \E left \in {plugin.conn - 1, 0} :
                plugin' = [plugin EXCEPT !.checked = FALSE, !.conn = left, !.stops = @ + 1]
    /\ UNCHANGED PluginVars

\* gisquick_ws.start returns res in thread w and run() emits finished(res),
\* lines 678-679.
WorkerReturn(w) ==
    /\ plugin.workers[w].st = "running"
    /\ \E res \in ExitCodes :
         plugin' = [plugin EXCEPT !.workers[w] = [st |-> "emitted", res |-> res,
                                                  emitted |-> @.emitted + 1,
                                                  handled |-> @.handled]]
    /\ UNCHANGED PluginVars

\* gisquick_ws.start raises in thread w (the load failed, a setting is None):
\* run() ends at line 678 and nothing is emitted.
WorkerRaise(w) ==
    /\ plugin.workers[w].st = "running"
    /\ plugin' = [plugin EXCEPT !.workers[w].st = "raised"]
    /\ UNCHANGED PluginVars

\* The main thread delivers finished(res) of thread w to on_finished.
OnFinished(w) ==
    /\ plugin.workers[w].st = "emitted"
    /\ \E isCurrent \in BOOLEAN :
         plugin' = [OnFinishedEffect(plugin, plugin.workers[w].res, isCurrent)
                      EXCEPT !.workers[w].st = "finished",
                             !.workers[w].handled = @ + 1]
    /\ UNCHANGED PluginVars

\* The success signal of thread w reaches on_connection_estabilished, lines
\* 638-651: the notification widget is shown and kept.
OnSuccess(w) ==
    /\ plugin.workers[w].st = "running"
    /\ plugin' = [plugin EXCEPT !.widget = TRUE]
    /\ UNCHANGED PluginVars

\* The project is saved or read: the signal calls on_project_change once per
\* connection, lines 580-581.
ProjectSaved ==
    /\ plugin' = [plugin EXCEPT !.changeCalls = plugin.conn]
    /\ UNCHANGED PluginVars

\* WebGisPlugin.unload, lines 134-137.
UnloadPlugin ==
    /\ ~plugin.unloaded
    /\ plugin' = [plugin EXCEPT !.unloaded = TRUE,
                                !.ws = NoWs,
                                !.stops = IF plugin.ws # NoWs THEN @ + 1 ELSE @]
    /\ UNCHANGED PluginVars

NextPlugin ==
    \/ ClickOn
    \/ ClickOff
    \/ ProjectSaved
    \/ UnloadPlugin
    \/ \E w \in Workers :
         \/ WorkerReturn(w)
         \/ WorkerRaise(w)
         \/ OnFinished(w)
         \/ OnSuccess(w)

PluginSpec == Init /\ [][NextPlugin]_vars

\* The main thread's event loop delivers every queued finished signal.
PluginFair == PluginSpec /\ \A w \in Workers : WF_vars(OnFinished(w))

\* ------------------------------------------------------------------ claims
Replied == reply.n = 1
HandlerCalled == Replied /\ reply.res.calls = 1
HandlerReturned == HandlerCalled /\ ~reply.o.raised
HandlerRaised == HandlerCalled /\ reply.o.raised
Raised == reply.o.exc[1]
Out == reply.res.out
CommandHasId == "id" \in reply.raw.keys
IdCarried ==
    /\ ("id" \in Out.keys) <=> CommandHasId
    /\ CommandHasId => Out.id = reply.raw.id

\* C1: when the handler returns a value V (any JSON value, falsy ones such as
\* 0, false, [] and {} included), the response has the command's type, status
\* 200, data equal to V, and the command's id iff it had one.
C1_ReturnedValueIsData ==
    (HandlerReturned /\ reply.o.value # PyNone /\ Encodable(reply.o.value)) =>
        /\ reply.res.returned
        /\ Out.type = reply.raw.type
        /\ Out.status = StatusOk
        /\ Out.data = ToJson(reply.o.value)
        /\ IdCarried

\* C2: bytes that are not JSON, or a JSON object without a type member, get a
\* well-formed status 500 response without id, and no exception leaves the
\* dispatcher.
C2_MalformedGets500 ==
    (Replied /\ (~reply.raw.wf \/ (reply.raw.top = "object" /\ "type" \notin reply.raw.keys))) =>
        /\ reply.res.returned
        /\ reply.res.escaped = NoExc
        /\ {"type", "status", "data"} \subseteq Out.keys
        /\ Out.status = StatusError
        /\ "id" \notin Out.keys

\* C3: whatever the handler returns or raises, encodable or not, the
\* dispatcher returns an encoded response and no exception leaves it.
C3_ExceptionBarrier ==
    HandlerCalled => (reply.res.returned /\ reply.res.escaped = NoExc)

\* C4: when the handler raises WsError(msg, code), the response has status =
\* code, data = msg and a non-empty traceback.
C4_WsErrorStatusAndData ==
    (HandlerRaised /\ Raised.cls = "WsError") =>
        /\ reply.res.returned
        /\ Out.status = Raised.code
        /\ Out.data = JStr(Raised.arg)
        /\ "traceback" \in Out.keys
        /\ Out.traceback # ""

C4_Witness ==
    /\ HandlerRaised /\ reply.res.returned
    /\ Raised.cls = "WsError" /\ Raised.code = 403 /\ Out.status = 403
    /\ Len(reply.o.exc) > 1

\* C5: when the handler raises anything that is no WsError, the response has
\* status 500, data = str(e) of the raised exception and a non-empty traceback.
C5_OtherFailureIs500 ==
    (HandlerRaised /\ Raised.cls # "WsError") =>
        /\ reply.res.returned
        /\ Out.status = StatusError
        /\ Out.data = JStr(ExcStr(Raised))
        /\ "traceback" \in Out.keys
        /\ Out.traceback # ""

C5_Witness ==
    /\ HandlerRaised /\ reply.res.returned
    /\ Raised.cls = "ValueError" /\ Len(reply.o.exc) > 1
    /\ reply.o.exc[2].cls = "WsError"
    /\ Out.status = StatusError /\ Out.data = JStr("boom")

\* C6: a command whose type is not registered gets status 500, whether a
\* project is open or not, and no command's handler logic runs.
C6_UnregisteredTypeIs500 ==
    (HandlerCalled /\ callback = "plugin" /\ reply.raw.type \notin RegisteredTypes) =>
        /\ reply.res.returned
        /\ Out.status = StatusError
        /\ reply.o.branch \notin RegisteredTypes
        /\ reply.o.writes = 0

\* C7: every response the dispatcher returns, on the success path and on every
\* failure path, has an id iff the command had one, and the same id.
C7_IdCopiedVerbatim ==
    (Replied /\ reply.res.returned) => IdCarried

C7_Witness ==
    /\ HandlerRaised /\ reply.res.returned
    /\ CommandHasId /\ reply.raw.id = JNum(0)
    /\ "id" \in Out.keys /\ Out.id = JNum(0)

\* C8 as stated: every response has status and data, has a traceback iff the
\* handler raised, so no status 200 response has a traceback and every other
\* response has one.
C8_TracebackIffNot200 ==
    (Replied /\ reply.res.returned) =>
        /\ {"status", "data"} \subseteq Out.keys
        /\ ("traceback" \in Out.keys) <=> reply.o.raised
        /\ ("traceback" \in Out.keys) <=> (Out.status # StatusOk)

\* C8 as amended: every response has status and data, and has a traceback iff
\* the handler raised; every response whose status is not 200 has a traceback,
\* and a status 200 response has one only when the handler raised a WsError
\* whose code is 200.
C8_TracebackIffRaised ==
    (Replied /\ reply.res.returned) =>
        /\ {"status", "data"} \subseteq Out.keys
        /\ ("traceback" \in Out.keys) <=> reply.o.raised
        /\ (Out.status # StatusOk) => "traceback" \in Out.keys
        /\ (Out.status = StatusOk /\ "traceback" \in Out.keys) =>
               (Raised.cls = "WsError" /\ Raised.code = StatusOk)

C8_Witness ==
    /\ HandlerRaised /\ reply.res.returned
    /\ Raised.cls = "WsError" /\ Raised.code = StatusNotOpened
    /\ "traceback" \in Out.keys /\ Out.status = StatusNotOpened

\* C9: for every inbound Command Envelope the handler is called at most once
\* and exactly one response is returned, with the status of the handler's
\* outcome.
C9_OneCallOneResponse ==
    (Replied /\ HandlerReached(reply.raw)) =>
        /\ reply.res.calls <= 1
        /\ reply.res.returned
        /\ HandlerReturned => Out.status = StatusOk
        /\ HandlerRaised => Out.status = ClassifyStatus(reply.o.exc)

\* C10: over any series of load and start calls the artifact is loaded at most
\* once, exactly once as soon as a handle is stored, and the handle stored by
\* that load is the one every later call finds, also a start made after an
\* earlier start has returned.
C10_LoadedOnce ==
    /\ lib = NoLib => loadCount = 0
    /\ lib # NoLib => (loadCount = 1 /\ lib = 1)
    /\ (starts > 0 /\ pc # "loading" /\ ~startRaised) => lib # NoLib

C10_Witness ==
    /\ starts = 2 /\ pc = "running" /\ exitCode # NoExit
    /\ loadCount = 1 /\ lib = 1

\* A step in which the host calls stop() or send().
StopStep == hist'.stopCalls = hist.stopCalls + 1
SendStep == hist'.sendCalls = hist.sendCalls + 1

\* C11: under every interleaving of two threads calling start on the shared
\* instance, the artifact is loaded at most once and no second handle is ever
\* stored.
C11_OneLoadOneHandle ==
    /\ loadCount <= 1
    /\ lib \in {NoLib, 1}

\* C12: while no handle has been loaded (before any load or start), stop() and
\* send() return without calling native Stop or SendMessage and leave the
\* controller as it was.
C12_NoHandleNoNativeCall ==
    [][(lib = NoLib /\ loadCount = 0 /\ (StopStep \/ SendStep)) =>
          /\ native' = native
          /\ UNCHANGED << lib, loadCount, pc, callback, starts, exitCode, startRaised,
                          reply, args >>]_vars

C12_Witness ==
    /\ lib = NoLib /\ loadCount = 0
    /\ hist.stopCalls = 1 /\ hist.sendCalls = 1
    /\ native.nStop = 0 /\ native.nSend = 0

\* C13: whenever no start() call is in progress, also after a start() call has
\* returned, a stop() or send() makes no native call.
C13_IdleStopSendNoNative ==
    [][(pc = "idle" /\ (loadCount = 0 \/ exitCode \in ExitCodes) /\ (StopStep \/ SendStep))
          => native' = native]_vars

\* C14: start returns exactly the code native Start returned, and _unload_lib
\* runs once after the native call expression on every way out of it: Start
\* returned zero, returned non-zero, or the expression raised.
C14_ExitCodeAndUnload ==
    [][/\ (pc = "running" /\ pc' = "idle") =>
            /\ exitCode' = native'.exit
            /\ hist'.unloads = hist.unloads + 1
       /\ (pc = "loading" /\ hist'.tryRaised) =>
            /\ pc' = "idle"
            /\ exitCode' = exitCode
            /\ hist'.unloads = hist.unloads + 1]_vars

C14_Witness ==
    /\ pc = "idle" /\ starts = 2
    /\ exitCode = 1 /\ native.exit = 1
    /\ hist.tryRaised /\ hist.unloads = 2

\* C15: the controller goes Idle -> Loading -> Running -> Idle. Loading is
\* entered only from Idle by a start() call; Running is entered only from
\* Loading, with a handle stored after a load that did not fail and native
\* Start entered; Running is left only to Idle, by start() returning; the
\* dispatcher and onConnected are called only while Running.
C15_StateMachine ==
    [][/\ (pc' = "loading" /\ pc # "loading") => (pc = "idle" /\ starts' = starts + 1)
       /\ (pc' = "running" /\ pc # "running") =>
            /\ pc = "loading"
            /\ lib' # NoLib
            /\ ~hist'.loaderFailed
            /\ native'.nStart = native.nStart + 1
       /\ (pc = "running" /\ pc' # "running") =>
            /\ pc' = "idle"
            /\ exitCode' \in ExitCodes
            /\ exitCode' = native'.exit
       /\ (reply' # reply /\ reply'.n = 1) => (pc = "running" /\ pc' = "running")
       /\ (hist'.connected > hist.connected) => (pc = "running" /\ pc' = "running")]_vars

C15_Witness ==
    /\ starts = 2 /\ pc = "running" /\ exitCode \in ExitCodes
    /\ native.nStart = 2
    /\ reply.n = 1 /\ hist.connected = 1

\* C16: during one start() call the host's onConnected is called at most once,
\* however often the native client calls the success function pointer.
C16_ConnectedAtMostOnce == hist.connected <= 1

\* C17: stop() returns without waiting for the run to end, and, the native
\* loop honouring Stop, a stop() made while start() is Running is eventually
\* followed by that start() returning.
C17_StopEndsRun ==
    /\ [][StopStep => pc' = pc]_vars
    /\ (pc = "running" /\ hist.stopAsked) ~> (pc = "idle" /\ exitCode \in ExitCodes)

C17_Witness ==
    /\ pc = "idle" /\ exitCode \in ExitCodes
    /\ hist.stopAsked /\ native.stopRequested /\ native.nStop = 1

\* C18: for a failure F raised by the handler the response has status F.code
\* when F is a WsError and 500 otherwise, data str(F), and the traceback
\* formatted from F's explicit cause when F has one and from F otherwise.
C18_ErrorClassifier ==
    (HandlerRaised /\ reply.res.returned) =>
        /\ Out.status = (IF Raised.cls = "WsError" THEN Raised.code ELSE StatusError)
        /\ Out.data = JStr(ExcStr(Raised))
        /\ Out.traceback = Join(TracebackFormat(IF Len(reply.o.exc) > 1
                                                  THEN Tail(reply.o.exc)
                                                  ELSE reply.o.exc))

C18_Witness ==
    /\ HandlerRaised /\ reply.res.returned
    /\ Len(reply.o.exc) > 1
    /\ Raised.cls # "WsError"
    /\ Out.traceback = Join(TracebackFormat(Tail(reply.o.exc)))
    /\ Out.traceback # Join(TracebackFormat(reply.o.exc))

\* C19: the length of every GoString handed to the native client is the
\* number of bytes of its UTF-8 encoding.
C19_LengthIsByteCount ==
    \A i \in 1..Len(native.lastArgs) : native.lastArgs[i].n = Len(native.lastArgs[i].p)

\* C20: when LoadLibrary fails inside a start() call, the failure comes out of
\* start, native Start is not called and no handle is stored.
C20_LoadFailurePropagates ==
    [][(pc = "loading" /\ pc' # "loading" /\ hist'.loaderFailed) =>
          /\ startRaised'
          /\ pc' = "idle"
          /\ native' = native
          /\ lib' = NoLib
          /\ loadCount' = loadCount
          /\ exitCode' = exitCode]_vars

C20_Witness ==
    /\ pc = "idle" /\ starts = 1
    /\ startRaised /\ hist.loaderFailed
    /\ lib = NoLib /\ native.nStart = 0

\* C21: with no project open, a ProjectInfo command with id X gets the
\* response {type: ProjectInfo, id: X, status: 404, data: "Project is not
\* opened", traceback: non-empty}, and the handler writes nothing to the
\* project.
C21_NotOpenedIs404 ==
    (HandlerCalled /\ callback = "plugin" /\ ~projectOpen
       /\ reply.raw.type = "ProjectInfo" /\ CommandHasId) =>
        /\ reply.res.returned
        /\ Out.keys = {"type", "id", "status", "data", "traceback"}
        /\ Out.type = "ProjectInfo"
        /\ Out.id = reply.raw.id
        /\ Out.status = StatusNotOpened
        /\ Out.data = JStr("Project is not opened")
        /\ Out.traceback # ""
        /\ reply.o.writes = 0

C21_Witness ==
    /\ HandlerRaised /\ callback = "plugin" /\ ~projectOpen
    /\ reply.raw.type = "ProjectInfo" /\ reply.raw.id = JStr("42") /\ CommandHasId
    /\ Out.status = StatusNotOpened /\ Out.id = JStr("42")

\* C22: when the handler returns None, as EnableLayersWFS and
\* UpdateQgisProject do, the response has status 200 and data "".
C22_NoneIsEmptyString ==
    (HandlerReturned /\ reply.o.value = PyNone) =>
        /\ reply.res.returned
        /\ Out.status = StatusOk
        /\ Out.data = JStr("")
        /\ "traceback" \notin Out.keys

C22_Witness ==
    /\ HandlerReturned /\ callback = "plugin" /\ projectOpen
    /\ reply.o.branch = "UpdateQgisProject" /\ reply.o.writes = 1
    /\ reply.o.value = PyNone
    /\ Out.status = StatusOk /\ Out.data = JStr("")

C25_TracebackFromRoot ==
    (HandlerRaised /\ reply.res.returned) =>
        Out.traceback = Join(TracebackFormat(<< reply.o.exc[Len(reply.o.exc)] >>))

\* C26: with a project open, a command of a registered type that has no data
\* member is handled without raising and gets status 200.
C26_NoDataIsHandled ==
    (HandlerCalled /\ callback = "plugin" /\ projectOpen
       /\ reply.raw.type \in RegisteredTypes /\ "data" \notin reply.raw.keys) =>
        /\ ~reply.o.raised
        /\ reply.res.returned
        /\ Out.status = StatusOk

\* The tree layers of the project a ProjectInfo command was answered on, and
\* those among them whose metadata cannot be collected.
TreeLayers == {l \in LayerSet : info.project[l].inTree}
FailingLayers == {l \in TreeLayers : info.project[l].fails}

\* C30: for a ProjectInfo command on an open project in which collecting a
\* layer's metadata raises E: without skip_layers_with_error the response has
\* status 500, data "Failed to collect metadata of layer '<name>'" and the
\* traceback formatted from E; with it the response has status 200 and the
\* layers map holds every tree layer but the failing ones.
C30_LayerFailure ==
    (Replied /\ info.n = 1 /\ projectOpen /\ reply.o.branch = "ProjectInfo") =>
        /\ (FailingLayers # {} /\ ~info.skip) =>
              /\ HandlerRaised /\ reply.res.returned
              /\ Out.status = StatusError
              /\ \E l \in FailingLayers :
                   Out.data = JStr("Failed to collect metadata of layer '" \o LayerName(l) \o "'")
              /\ Out.traceback = Join(TracebackFormat(info.error))
        /\ (FailingLayers = {} \/ info.skip) =>
              /\ HandlerReturned /\ reply.res.returned
              /\ Out.status = StatusOk
              /\ info.layers = TreeLayers \ FailingLayers

C30_Witness ==
    /\ Replied /\ info.n = 1 /\ projectOpen /\ info.skip
    /\ TreeLayers = LayerSet
    /\ FailingLayers = {"l2"}
    /\ info.layers = {"l1", "l3"}
    /\ Out.status = StatusOk

\* C24: dispatcher calls are serialised: when the native client delivers two
\* commands at the same time, at most one call is between the start of its
\* handler and the return of its response.
C24_DispatchSerialized ==
    \A d, e \in NativeThreads :
        (d # e /\ deliveries[d].pc \in {"handler", "encode"})
            => deliveries[e].pc \notin {"handler", "encode"}

\* C27: across any toggles and native exits, at most one gisquick_ws.start
\* call is in progress, and, until the plugin is unloaded, self.ws is set
\* exactly while the thread created last has not had its finished signal
\* handled.
C27_OneStartInProgress ==
    /\ \A v, w \in Workers :
         (plugin.workers[v].st = "running" /\ plugin.workers[w].st = "running") => v = w
    /\ ~plugin.unloaded =>
         ((plugin.ws # NoWs) <=>
            (Latest # 0 /\ plugin.workers[Latest].st \in {"running", "emitted", "raised"}))

\* C28: after any toggles and finished events (the plugin not unloaded), the
\* plugin's handler is connected to each project signal at most once, not at
\* all while self.ws holds no connection, and a disconnect is never tried on a
\* handler that is not connected.
C28_SignalsConnectedOnce ==
    ~plugin.unloaded =>
        /\ plugin.conn <= 1
        /\ plugin.ws = NoWs => plugin.conn = 0
        /\ ~plugin.disconnectFailed

\* C29: every return of gisquick_ws.start with code res in a worker thread is
\* followed by one finished(res); handling it sets self.ws to None and
\* unchecks the action, shows the warning iff res # 0, and takes the success
\* notification away only when res = 0.
C29_FinishedOnce ==
    /\ [][\A w \in Workers :
            /\ (plugin.workers[w].st = "running" /\ plugin'.workers[w].st \in {"emitted", "finished"}) =>
                 /\ plugin'.workers[w].st = "emitted"
                 /\ plugin'.workers[w].res \in ExitCodes
                 /\ plugin'.workers[w].emitted = 1
            /\ (plugin'.workers[w].handled # plugin.workers[w].handled) =>
                 /\ plugin.workers[w].st = "emitted"
                 /\ plugin'.workers[w].handled = 1
                 /\ plugin'.workers[w].res = plugin.workers[w].res
                 /\ plugin'.ws = NoWs
                 /\ ~plugin'.checked
                 /\ plugin'.warnings = plugin.warnings + (IF plugin.workers[w].res # 0 THEN 1 ELSE 0)
                 /\ (plugin'.popped # plugin.popped \/ plugin'.widget # plugin.widget)
                       => plugin.workers[w].res = 0]_vars
    /\ \A w \in Workers : (plugin.workers[w].st = "emitted") ~> (plugin.workers[w].handled = 1)

C29_Witness ==
    /\ plugin.workers[1].st = "finished" /\ plugin.workers[1].res = 1
    /\ plugin.workers[2].st = "finished" /\ plugin.workers[2].res = 0
    /\ plugin.warnings = 1 /\ plugin.popped = 1
    /\ plugin.ws = NoWs /\ ~plugin.checked

====
